---- MODULE Spec2Model ----
(***************************************************************************)
(* Model of the search sidebar of vzcode (src/client/VZSidebar/Search.tsx).*)
(* The specifications share the variables:                                 *)
(*   SpecTrigger  the debounced search trigger (mount, pattern changes,    *)
(*                the delay timer, unmount);                               *)
(*   SpecNav      keyboard and pointer navigation over a result set;       *)
(*   SpecJump     jumpToPattern on a document;                             *)
(*   SpecTabs     the tab reducer, from the states it keeps well-formed;   *)
(*   SpecReducer  the closing actions of the tab reducer, from any state.  *)
(* Indices are 0-based as in the source; Null stands for JavaScript null.  *)
(***************************************************************************)
EXTENDS Integers, Sequences, FiniteSets, TLC

VARIABLES
  mounted,            \* the Search component is rendered (inputRef.current is set)
  isMounted,          \* useState(false), Search.tsx:46
  isSearching,        \* useState(false), Search.tsx:47
  pattern,            \* search.pattern, a sequence of characters
  cleanup,            \* the last run of the effect returned the clearTimeout cleanup
  timers,             \* the pending setTimeout callbacks, oldest first, each its captured pattern
  results,            \* search.results, entries in insertion order
  focusedIndex,       \* search.focusedIndex
  focusedChildIndex,  \* search.focusedChildIndex
  activeFileId,       \* the active file of the editor
  lastEvent,          \* the event the last handler handled: a key, or the kind of click
  error,              \* source line at which the last handler threw, 0 when it returned
  jump,               \* the jumpToPattern call of the last handler, <<>> when none
  syncNode,           \* the node whose element the last handler checked, <<>> when none
  scrolled,           \* the last handler called scrollIntoView on that element
  prevFocus,          \* history: <<focusedIndex, focusedChildIndex>> before the last handler
  doc,                \* the text of the editor a jump is dispatched to, a sequence of lines
  dispatched,         \* the transaction jumpToPattern dispatched, <<>> when none
  tabList,            \* state.tabList of the tab reducer
  prevTabs,           \* history: the tab reducer's state before its last action
  changes,            \* history: the patterns entered since a change last found no timer pending
  execs               \* history: the patterns searched since a change last found no timer pending

vars == <<mounted, isMounted, isSearching, pattern, cleanup, timers, results, focusedIndex,
          focusedChildIndex, activeFileId, lastEvent, error, jump, syncNode, scrolled,
          prevFocus, doc, dispatched, tabList, prevTabs, changes, execs>>

----------------------------------------------------------------------------
(* Bounds *)

MaxMatches == 2
MaxChild == 3
MaxBurst == 3

(* JavaScript null for the two focus indices (never the result of index arithmetic). *)
Null == -2

NoFile == "null"

FileIds == <<"a.ts", "b.ts">>

Patterns == { <<>>, <<" ">>, <<"a">>, <<" ", "b">> }

----------------------------------------------------------------------------
(* String helpers *)

IsSpace(c) == c = " "

(* String.prototype.trim replaced by the identity. *)
Trim_Identity(s) == s

RECURSIVE TrimStart(_)
TrimStart(s) ==
  IF s = <<>> THEN <<>>
  ELSE IF IsSpace(Head(s)) THEN TrimStart(Tail(s)) ELSE s

RECURSIVE TrimEnd(_)
TrimEnd(s) ==
  IF s = <<>> THEN <<>>
  ELSE IF IsSpace(s[Len(s)]) THEN TrimEnd(SubSeq(s, 1, Len(s) - 1)) ELSE s

Trim(s) == TrimEnd(TrimStart(s))

----------------------------------------------------------------------------
(* Result sets *)

MatchAt(j) == [line |-> j, index |-> j - 1]

MatchList(m) == [j \in 1..m |-> MatchAt(j)]

Entry(id, m) == [id |-> id, visibility |-> "open", matches |-> MatchList(m)]

(* What the match-producing service may return: no file at all, or every   *)
(* file with 0..MaxMatches match records; a fresh search starts every file *)
(* open.                                                                   *)
SearchOutcomes ==
  { <<>> } \cup
  { [k \in 1..Len(FileIds) |-> Entry(FileIds[k], cnt[k])] :
      cnt \in [1..Len(FileIds) -> 0..MaxMatches] }

----------------------------------------------------------------------------
(* SearchTrigger: the effect on [pattern], Search.tsx:64-84 *)

(* setSearchResults(shareDBDoc): results replaced wholesale, focus reset. *)
SetSearchResults(outcome) ==
  /\ results' = outcome
  /\ focusedIndex' = Null
  /\ focusedChildIndex' = Null

(* The effect without its cleanup: the earlier timer stays pending. *)
ClearTimeoutDelaySearch_Missing(ts, hasCleanup) == ts

(* The cleanup of the previous run of the effect, clearTimeout(delaySearch) *)
(* when that run returned one.  Equal delays fire in creation order, so a  *)
(* still pending timer of the latest run is the newest one.                *)
ClearTimeoutDelaySearch(ts, hasCleanup) ==
  IF hasCleanup /\ ts # <<>> THEN SubSeq(ts, 1, Len(ts) - 1) ELSE ts

(* The component is rendered and its effects run for the first time. *)
Mount ==
  /\ UNCHANGED <<doc, dispatched, tabList, prevTabs>>
  /\ ~mounted
  /\ mounted' = TRUE
  /\ isSearching' = FALSE
  /\ isMounted' = TRUE
  /\ cleanup' = FALSE
  /\ changes' = <<>>
  /\ execs' = <<>>
  /\ UNCHANGED <<pattern, timers, results, focusedIndex, focusedChildIndex,
                 activeFileId, lastEvent, error, jump, syncNode, scrolled, prevFocus>>

(* onChange of the input: setSearch(value), then the cleanup of the        *)
(* previous effect and the effect for the new pattern.                     *)
SetSearch(p) ==
  /\ UNCHANGED <<doc, dispatched, tabList, prevTabs>>
  /\ mounted
  /\ p # pattern
  /\ timers # <<>> => Len(changes) < MaxBurst
  /\ pattern' = p
  /\ IF isMounted
       THEN /\ isSearching' = (Len(Trim(p)) >= 1)
            /\ timers' = Append(ClearTimeoutDelaySearch(timers, cleanup), p)
            /\ cleanup' = TRUE
            /\ UNCHANGED isMounted
       ELSE /\ isMounted' = TRUE
            /\ timers' = ClearTimeoutDelaySearch(timers, cleanup)
            /\ cleanup' = FALSE
            /\ UNCHANGED isSearching
  /\ changes' = IF timers = <<>> THEN <<p>> ELSE Append(changes, p)
  /\ execs' = IF timers = <<>> THEN <<>> ELSE execs
  /\ UNCHANGED <<mounted, results, focusedIndex, focusedChildIndex,
                 activeFileId, lastEvent, error, jump, syncNode, scrolled, prevFocus>>

(* The oldest pending timer fires: the callback of setTimeout. *)
DelaySearch ==
  /\ UNCHANGED <<doc, dispatched, tabList, prevTabs>>
  /\ timers # <<>>
  /\ timers' = Tail(timers)
  /\ IF Len(Trim(Head(timers))) >= 1 /\ mounted
       THEN /\ \E outcome \in SearchOutcomes : SetSearchResults(outcome)
            /\ isSearching' = FALSE
            /\ execs' = Append(execs, pattern)
       ELSE UNCHANGED <<results, focusedIndex, focusedChildIndex, isSearching, execs>>
  /\ UNCHANGED <<mounted, isMounted, pattern, cleanup, changes,
                 activeFileId, lastEvent, error, jump, syncNode, scrolled, prevFocus>>

(* The component removed without the cleanup of its effect. *)
Unmount_KeepsTimer ==
  /\ UNCHANGED <<doc, dispatched, tabList, prevTabs>>
  /\ mounted
  /\ mounted' = FALSE
  /\ isMounted' = FALSE
  /\ isSearching' = FALSE
  /\ cleanup' = FALSE
  /\ UNCHANGED <<pattern, timers, results, focusedIndex, focusedChildIndex, changes, execs,
                 activeFileId, lastEvent, error, jump, syncNode, scrolled, prevFocus>>

(* The component is removed: the cleanup of the last effect runs and the   *)
(* component's own state is discarded.                                     *)
Unmount ==
  /\ UNCHANGED <<doc, dispatched, tabList, prevTabs>>
  /\ mounted
  /\ mounted' = FALSE
  /\ isMounted' = FALSE
  /\ isSearching' = FALSE
  /\ timers' = ClearTimeoutDelaySearch(timers, cleanup)
  /\ cleanup' = FALSE
  /\ UNCHANGED <<pattern, results, focusedIndex, focusedChildIndex, changes, execs,
                 activeFileId, lastEvent, error, jump, syncNode, scrolled, prevFocus>>

InitTrigger ==
  /\ doc = <<>>
  /\ dispatched = <<>>
  /\ tabList = <<>>
  /\ prevTabs = <<>>
  /\ mounted = FALSE
  /\ isMounted = FALSE
  /\ isSearching = FALSE
  /\ pattern = <<>>
  /\ cleanup = FALSE
  /\ timers = <<>>
  /\ results = <<>>
  /\ focusedIndex = Null
  /\ focusedChildIndex = Null
  /\ activeFileId = NoFile
  /\ lastEvent = ""
  /\ error = 0
  /\ jump = <<>>
  /\ syncNode = <<>>
  /\ scrolled = FALSE
  /\ prevFocus = <<Null, Null>>
  /\ changes = <<>>
  /\ execs = <<>>

NextTrigger ==
  \/ Mount
  \/ \E p \in Patterns : SetSearch(p)
  \/ DelaySearch
  \/ Unmount

SpecTrigger == InitTrigger /\ [][NextTrigger]_vars

----------------------------------------------------------------------------
(* The filtered view and the store's reducers *)

(* files without the filter on visibility. *)
files_Unfiltered == results

(* files: the entries of results whose visibility is not closed. *)
files == SelectSeq(results, LAMBDA e : e.visibility # "closed")

(* The result set with the visibility of file id replaced. *)
WithVisibility(rs, id, vis) ==
  [k \in DOMAIN rs |-> IF rs[k].id = id THEN [rs[k] EXCEPT !.visibility = vis] ELSE rs[k]]

(* Focus after file id got visibility vis: closing the focused file moves  *)
(* the focus to the previous visible file, or to none from the first.      *)
FocusAfterVisibility(fs, fi, ci, id, vis) ==
  IF vis = "closed" /\ fi # Null /\ fi >= 0 /\ fi < Len(fs) /\ fs[fi + 1].id = id
    THEN IF fi > 0 THEN <<fi - 1, Null>> ELSE <<Null, Null>>
    ELSE <<fi, ci>>

(* flattenResult passing the wrong visibility for an open file. *)
flattenResult_Closes(file) == IF file.visibility = "open" THEN "closed" ELSE "open"

(* flattenResult: the visibility it passes to setSearchFileVisibility. *)
flattenResult(file) == IF file.visibility = "open" THEN "flattened" ELSE "open"

(* closeResult: the visibility it passes to setSearchFileVisibility. *)
closeResult == "closed"

(* JavaScript ToNumber on an index that may be null. *)
ToNumber(x) == IF x = Null THEN 0 ELSE x

----------------------------------------------------------------------------
(* FocusNavigator: handleKeyDown, Search.tsx:106-209 *)

Keys == {"Tab", "ArrowUp", "ArrowDown", "ArrowLeft", "ArrowRight", "Enter", " "}

(* The results list is rendered and can receive key and pointer events. *)
ResultsRendered == mounted /\ Len(results) >= 1 /\ Len(Trim(pattern)) >= 1

(* files[focusedIndex] is defined. *)
HasFile(fs, fi) == fi # Null /\ fi >= 0 /\ fi < Len(fs)

(* ArrowUp without the branch that collapses the first match to the heading. *)
ArrowUp_NoCollapse(fs, fi, ci) ==
  IF fi = 0 /\ ci = Null THEN <<fi, ci>>
  ELSE IF ci = Null
    THEN LET previousMatchingLines == Len(fs[fi].matches)
         IN  IF previousMatchingLines > 0
               THEN <<fi - 1, previousMatchingLines - 1>>
               ELSE <<fi - 1, Null>>
  ELSE <<fi, ci - 1>>

(* ArrowUp always focusing the heading of the previous file. *)
ArrowUp_PreviousHeading(fs, fi, ci) ==
  IF fi = 0 /\ ci = Null THEN <<fi, ci>>
  ELSE IF ci = Null THEN <<fi - 1, Null>>
  ELSE IF ci = 0 THEN <<fi, Null>>
  ELSE <<fi, ci - 1>>

(* case 'ArrowUp' *)
ArrowUp(fs, fi, ci) ==
  IF fi = 0 /\ ci = Null THEN <<fi, ci>>
  ELSE IF ci = Null
    THEN LET previousMatchingLines == Len(fs[fi].matches)
         IN  IF previousMatchingLines > 0
               THEN <<fi - 1, previousMatchingLines - 1>>
               ELSE <<fi - 1, Null>>
  ELSE IF ci = 0 THEN <<fi, Null>>
  ELSE <<fi, ci - 1>>

(* ArrowDown wrapping from the last match of the last file to the first heading. *)
ArrowDown_Wraps(fs, fi, ci) ==
  LET matchingLines == Len(fs[fi + 1].matches)
  IN  IF ci = Null /\ matchingLines > 0 THEN <<fi, 0>>
      ELSE IF ci # Null /\ ci = matchingLines - 1
        THEN IF fi = Len(fs) - 1 THEN <<0, Null>> ELSE <<fi + 1, Null>>
      ELSE <<fi, ToNumber(ci) + 1>>

(* ArrowDown entering the first match of the next file instead of its heading. *)
ArrowDown_EntersNext(fs, fi, ci) ==
  LET matchingLines == Len(fs[fi + 1].matches)
  IN  IF fi = Len(fs) - 1 /\ ci # Null /\ ci = matchingLines - 1 THEN <<fi, ci>>
      ELSE IF ci = Null /\ matchingLines > 0 THEN <<fi, 0>>
      ELSE IF ci # Null /\ ci = matchingLines - 1 THEN <<fi + 1, 0>>
      ELSE <<fi, ToNumber(ci) + 1>>

(* case 'ArrowDown'; null is loosely equal to no number, and null + 1 is 1 *)
ArrowDown(fs, fi, ci) ==
  LET matchingLines == Len(fs[fi + 1].matches)
  IN  IF fi = Len(fs) - 1 /\ ci # Null /\ ci = matchingLines - 1 THEN <<fi, ci>>
      ELSE IF ci = Null /\ matchingLines > 0 THEN <<fi, 0>>
      ELSE IF ci # Null /\ ci = matchingLines - 1 THEN <<fi + 1, Null>>
      ELSE <<fi, ToNumber(ci) + 1>>

(* case 'ArrowLeft': the focus it sets *)
ArrowLeft(fs, fi, ci) == IF ci # Null THEN <<fi, Null>> ELSE <<fi, ci>>

(* case 'ArrowRight': the focus it sets *)
ArrowRight(fs, fi, ci) ==
  IF fs[fi + 1].visibility # "open" THEN <<fi, ci>>
  ELSE IF ci = Null THEN <<fi, 0>>
  ELSE <<fi, ci>>

(* The focus the switch leaves behind for a key. *)
KeyFocus(key, fs, fi, ci) ==
  CASE key = "Tab" -> <<fi, Null>>
    [] key = "ArrowUp" -> ArrowUp(fs, fi, ci)
    [] key = "ArrowDown" -> ArrowDown(fs, fi, ci)
    [] key = "ArrowLeft" -> ArrowLeft(fs, fi, ci)
    [] key = "ArrowRight" -> ArrowRight(fs, fi, ci)
    [] OTHER -> <<fi, ci>>

(* The key calls flattenResult on the focused file. *)
KeyFlattens(key, fs, fi, ci) ==
  \/ key = "ArrowLeft" /\ ci = Null
  \/ key = "ArrowRight" /\ fs[fi + 1].visibility # "open"

(* Only Enter activates: the case for ' ' is missing. *)
IsActivate_EnterOnly(key) == key = "Enter"

(* The key is Enter or Space. *)
IsActivate(key) == key \in {"Enter", " "}

(* Enter on a match reads files[focusedIndex][1].matches[focusedChildIndex].line *)
HasMatch(file, ci) == ci # Null /\ ci >= 0 /\ ci < Len(file.matches)

(* The arguments of jumpToPattern for match ci of a file. *)
JumpCall(file, ci, pat) ==
  [fileId |-> file.id, line |-> file.matches[ci + 1].line,
   index |-> file.matches[ci + 1].index, length |-> Len(pat)]

(* Lines 189-208 with the focus and the files the handler was created     *)
(* with: <<error, syncNode, scrolled>>.  A heading element exists for      *)
(* every visible file, a line element only while its file is not flattened.*)
ViewportSync(fs, fi, ci, hasContainer, withinView) ==
  IF ~hasContainer THEN <<0, <<>>, FALSE>>
  ELSE IF ci = Null THEN <<0, <<fi, ci>>, ~withinView>>
  ELSE IF ~HasMatch(fs[fi + 1], ci) THEN <<201, <<>>, FALSE>>
  ELSE IF fs[fi + 1].visibility = "flattened" THEN <<39, <<fi, ci>>, FALSE>>
  ELSE <<0, <<fi, ci>>, ~withinView>>

handleKeyDown(key, hasContainer, hasEditor, withinView) ==
  /\ UNCHANGED <<doc, dispatched, tabList, prevTabs>>
  /\ ResultsRendered
  /\ lastEvent' = key
  /\ prevFocus' = <<focusedIndex, focusedChildIndex>>
  /\ IF ~HasFile(files, focusedIndex)
       THEN /\ error' = 109
            /\ jump' = <<>>
            /\ syncNode' = <<>>
            /\ scrolled' = FALSE
            /\ UNCHANGED <<results, focusedIndex, focusedChildIndex, activeFileId>>
       ELSE LET file == files[focusedIndex + 1]
                focus == KeyFocus(key, files, focusedIndex, focusedChildIndex)
                throws177 == IsActivate(key) /\ focusedChildIndex # Null
                               /\ ~HasMatch(file, focusedChildIndex)
                sync == ViewportSync(files, focusedIndex, focusedChildIndex,
                                     hasContainer, withinView)
            IN  /\ focus[2] # Null => focus[2] <= MaxChild
                /\ focusedIndex' = focus[1]
                /\ focusedChildIndex' = focus[2]
                /\ results' = IF KeyFlattens(key, files, focusedIndex, focusedChildIndex)
                                THEN WithVisibility(results, file.id, flattenResult(file))
                                ELSE results
                /\ activeFileId' = IF IsActivate(key) THEN file.id ELSE activeFileId
                /\ jump' = IF IsActivate(key) /\ HasMatch(file, focusedChildIndex) /\ hasEditor
                             THEN <<JumpCall(file, focusedChildIndex, pattern)>>
                             ELSE <<>>
                /\ error' = IF throws177 THEN 177 ELSE sync[1]
                /\ syncNode' = IF throws177 THEN <<>> ELSE sync[2]
                /\ scrolled' = IF throws177 THEN FALSE ELSE sync[3]
  /\ UNCHANGED <<mounted, isMounted, isSearching, pattern, cleanup, timers, changes, execs>>

----------------------------------------------------------------------------
(* Pointer handlers, Search.tsx:246-249, 258-260, 277-280, 327-334 *)

(* Click on the heading of visible file index. *)
HeadingClick(index) ==
  /\ UNCHANGED <<doc, dispatched, tabList, prevTabs>>
  /\ ResultsRendered
  /\ lastEvent' = "heading"
  /\ prevFocus' = <<focusedIndex, focusedChildIndex>>
  /\ index \in 0..(Len(files) - 1)
  /\ activeFileId' = files[index + 1].id
  /\ focusedIndex' = index
  /\ focusedChildIndex' = Null
  /\ error' = 0
  /\ jump' = <<>>
  /\ syncNode' = <<>>
  /\ scrolled' = FALSE
  /\ UNCHANGED <<results, mounted, isMounted, isSearching, pattern, cleanup, timers,
                 changes, execs>>

(* Click on the arrow of visible file index: flattenResult, then the click *)
(* bubbles to the heading.                                                 *)
ArrowClick(index) ==
  /\ UNCHANGED <<doc, dispatched, tabList, prevTabs>>
  /\ ResultsRendered
  /\ lastEvent' = "arrow"
  /\ prevFocus' = <<focusedIndex, focusedChildIndex>>
  /\ index \in 0..(Len(files) - 1)
  /\ results' = WithVisibility(results, files[index + 1].id, flattenResult(files[index + 1]))
  /\ activeFileId' = files[index + 1].id
  /\ focusedIndex' = index
  /\ focusedChildIndex' = Null
  /\ error' = 0
  /\ jump' = <<>>
  /\ syncNode' = <<>>
  /\ scrolled' = FALSE
  /\ UNCHANGED <<mounted, isMounted, isSearching, pattern, cleanup, timers, changes, execs>>

(* Click on the close button, which only the focused heading shows. *)
CloseClick ==
  /\ UNCHANGED <<doc, dispatched, tabList, prevTabs>>
  /\ ResultsRendered
  /\ lastEvent' = "close"
  /\ prevFocus' = <<focusedIndex, focusedChildIndex>>
  /\ HasFile(files, focusedIndex)
  /\ focusedChildIndex = Null
  /\ LET id == files[focusedIndex + 1].id
         focus == FocusAfterVisibility(files, focusedIndex, focusedChildIndex,
                                       id, closeResult)
     IN  /\ results' = WithVisibility(results, id, closeResult)
         /\ focusedIndex' = focus[1]
         /\ focusedChildIndex' = focus[2]
  /\ error' = 0
  /\ jump' = <<>>
  /\ syncNode' = <<>>
  /\ scrolled' = FALSE
  /\ UNCHANGED <<activeFileId, mounted, isMounted, isSearching, pattern, cleanup, timers,
                 changes, execs>>

(* Click on rendered match line childIndex of visible file index. *)
LineClick(index, childIndex, hasEditor) ==
  /\ UNCHANGED <<doc, dispatched, tabList, prevTabs>>
  /\ ResultsRendered
  /\ lastEvent' = "line"
  /\ prevFocus' = <<focusedIndex, focusedChildIndex>>
  /\ index \in 0..(Len(files) - 1)
  /\ files[index + 1].visibility # "flattened"
  /\ childIndex \in 0..(Len(files[index + 1].matches) - 1)
  /\ focusedIndex' = index
  /\ focusedChildIndex' = childIndex
  /\ jump' = IF hasEditor THEN <<JumpCall(files[index + 1], childIndex, pattern)>> ELSE <<>>
  /\ error' = 0
  /\ syncNode' = <<>>
  /\ scrolled' = FALSE
  /\ UNCHANGED <<results, activeFileId, mounted, isMounted, isSearching, pattern, cleanup,
                 timers, changes, execs>>

(* The pattern of the navigation runs: its length differs from its trim's. *)
NavPattern == <<" ", "b">>

(* A search has just executed for NavPattern. *)
InitNav ==
  /\ doc = <<>>
  /\ dispatched = <<>>
  /\ tabList = <<>>
  /\ prevTabs = <<>>
  /\ mounted = TRUE
  /\ isMounted = TRUE
  /\ isSearching = FALSE
  /\ pattern = NavPattern
  /\ cleanup = TRUE
  /\ timers = <<>>
  /\ results \in SearchOutcomes
  /\ focusedIndex = Null
  /\ focusedChildIndex = Null
  /\ activeFileId = NoFile
  /\ lastEvent = ""
  /\ error = 0
  /\ jump = <<>>
  /\ syncNode = <<>>
  /\ scrolled = FALSE
  /\ prevFocus = <<Null, Null>>
  /\ changes = <<pattern>>
  /\ execs = <<pattern>>

NextNav ==
  \/ \E key \in Keys, hasContainer, hasEditor, withinView \in BOOLEAN :
       handleKeyDown(key, hasContainer, hasEditor, withinView)
  \/ \E index \in 0..(Len(FileIds) - 1) : HeadingClick(index)
  \/ \E index \in 0..(Len(FileIds) - 1) : ArrowClick(index)
  \/ CloseClick
  \/ \E index \in 0..(Len(FileIds) - 1), childIndex \in 0..(MaxMatches - 1), hasEditor \in BOOLEAN :
       LineClick(index, childIndex, hasEditor)

SpecNav == InitNav /\ [][NextNav]_vars

----------------------------------------------------------------------------
(* JumpCoordinator: jumpToPattern, Search.tsx:14-33 *)

MaxLines == 2
MaxLineLen == 2

Chars == {"a", "b"}

(* The lines a document may have, and the documents. *)
Lines == UNION { [1..n -> Chars] : n \in 0..MaxLineLen }

Docs == UNION { [1..n -> Lines] : n \in 1..MaxLines }

(* editor.state.doc.line(n).from: the offset of the first character of the *)
(* 1-based line n, lines being separated by one line break.                *)
RECURSIVE DocLineFrom(_, _)
DocLineFrom(d, n) ==
  IF n <= 1 THEN 0 ELSE DocLineFrom(d, n - 1) + Len(d[n - 1]) + 1

(* jumpToPattern with the column taken as 1-based. *)
jumpToPattern_OneBased(d, pat, line, index) ==
  LET position == DocLineFrom(d, line) + index - 1
  IN  [anchor |-> position, head |-> position + Len(pat),
       scrollIntoView |-> TRUE, scrollTo |-> position, y |-> "center"]

(* The transaction jumpToPattern dispatches. *)
jumpToPattern(d, pat, line, index) ==
  LET position == DocLineFrom(d, line) + index
  IN  [anchor |-> position, head |-> position + Len(pat),
       scrollIntoView |-> TRUE, scrollTo |-> position, y |-> "center"]

(* The editor of the match's file exists and jumpToPattern is called. *)
Dispatch ==
  /\ jump # <<>>
  /\ dispatched = <<>>
  /\ dispatched' = <<jumpToPattern(doc, pattern, jump[1].line, jump[1].index)>>
  /\ UNCHANGED <<mounted, isMounted, isSearching, pattern, cleanup, timers, results,
                 focusedIndex, focusedChildIndex, activeFileId, lastEvent, error, jump,
                 syncNode, scrolled, prevFocus, doc, tabList, prevTabs, changes, execs>>

(* A document, and a match of a pattern of length >= 1 in one of its lines. *)
InitJump ==
  /\ doc \in Docs
  /\ \E line \in 1..Len(doc) :
       \E index \in 0..(Len(doc[line]) - 1) :
         \E length \in 1..(Len(doc[line]) - index) :
           /\ pattern = SubSeq(doc[line], index + 1, index + length)
           /\ jump = <<[fileId |-> FileIds[1], line |-> line, index |-> index,
                        length |-> length]>>
  /\ dispatched = <<>>
  /\ mounted = TRUE
  /\ isMounted = TRUE
  /\ isSearching = FALSE
  /\ cleanup = TRUE
  /\ timers = <<>>
  /\ results = <<>>
  /\ focusedIndex = Null
  /\ focusedChildIndex = Null
  /\ activeFileId = FileIds[1]
  /\ lastEvent = ""
  /\ error = 0
  /\ syncNode = <<>>
  /\ scrolled = FALSE
  /\ prevFocus = <<Null, Null>>
  /\ tabList = <<>>
  /\ prevTabs = <<>>
  /\ changes = <<>>
  /\ execs = <<>>

NextJump == Dispatch

SpecJump == InitJump /\ [][NextJump]_vars

----------------------------------------------------------------------------
(* The tab reducer.  A reducer state is [tabList, activeFileId]; NoFile is *)
(* the null activeFileId.                                                  *)

TabIds == {"a.ts", "b.ts", "c.ts", "d.ts"}

(* the longest idsToDelete of a multi_close_tab action *)
MaxClose == 3

(* Array.prototype.findIndex with an equality test: 0-based, -1 if absent *)
findIndex(list, id) ==
  IF \E k \in 1..Len(list) : list[k] = id
    THEN (CHOOSE k \in 1..Len(list) :
            /\ list[k] = id
            /\ \A j \in 1..(k - 1) : list[j] # id) - 1
    ELSE -1

(* [...list.slice(0, i), ...list.slice(i + 1)] *)
sliceOut(list, i) == SubSeq(list, 1, i) \o SubSeq(list, i + 2, Len(list))

(* case 'open_tab' *)
open_tab(state, fileId) ==
  IF findIndex(state.tabList, fileId) = -1
    THEN [tabList |-> Append(state.tabList, fileId), activeFileId |-> fileId]
    ELSE [tabList |-> state.tabList, activeFileId |-> fileId]

(* close_tab that never touches activeFileId. *)
close_tab_KeepsActive(state, fileIdToRemove) ==
  LET i == findIndex(state.tabList, fileIdToRemove)
  IN  IF i # -1
        THEN [tabList |-> sliceOut(state.tabList, i),
              activeFileId |-> state.activeFileId]
        ELSE state

(* case 'close_tab' *)
close_tab(state, fileIdToRemove) ==
  LET i == findIndex(state.tabList, fileIdToRemove)
      newTabList == sliceOut(state.tabList, i)
  IN  IF i # -1
        THEN IF state.activeFileId = fileIdToRemove
               THEN IF Len(newTabList) > 0
                      THEN [tabList |-> newTabList,
                            activeFileId |-> IF i = 0 THEN newTabList[i + 1]
                                                       ELSE newTabList[i]]
                      ELSE [tabList |-> newTabList, activeFileId |-> NoFile]
               ELSE [tabList |-> newTabList, activeFileId |-> state.activeFileId]
        ELSE state

(* action.idsToDelete.forEach(...) over the running newTabList and         *)
(* newActiveFileId of case 'multi_close_tab'                               *)
RECURSIVE forEachIdToDelete(_, _, _)
forEachIdToDelete(newTabList, newActiveFileId, ids) ==
  IF ids = <<>>
    THEN [tabList |-> newTabList, activeFileId |-> newActiveFileId]
    ELSE LET id == Head(ids)
             i == findIndex(newTabList, id)
             removed == sliceOut(newTabList, i)
         IN  IF i # -1
               THEN forEachIdToDelete(
                      removed,
                      IF newActiveFileId = id
                        THEN IF Len(removed) > 0
                               THEN IF i = 0 THEN removed[i + 1] ELSE removed[i]
                               ELSE NoFile
                        ELSE newActiveFileId,
                      Tail(ids))
               ELSE forEachIdToDelete(newTabList, newActiveFileId, Tail(ids))

(* multi_close_tab that, when the active tab is among the removed ones,  *)
(* activates the first remaining tab.                                      *)
multi_close_tab_FirstRemaining(state, idsToDelete) ==
  LET newTabList == forEachIdToDelete(state.tabList, state.activeFileId,
                                      idsToDelete).tabList
  IN  [tabList |-> newTabList,
       activeFileId |->
         IF \E k \in 1..Len(idsToDelete) :
              /\ idsToDelete[k] = state.activeFileId
              /\ findIndex(state.tabList, state.activeFileId) # -1
           THEN IF Len(newTabList) > 0 THEN newTabList[1] ELSE NoFile
           ELSE state.activeFileId]

(* case 'multi_close_tab' *)
multi_close_tab(state, idsToDelete) ==
  forEachIdToDelete(state.tabList, state.activeFileId, idsToDelete)

(* the reducer's state *)
TabState == [tabList |-> tabList, activeFileId |-> activeFileId]

(* the sequences of at most n ids *)
IdLists(n) == UNION {[1..k -> TabIds] : k \in 0..n}

(* dispatch of one action to the reducer *)
Reduce(type, next) ==
  /\ tabList' = next.tabList
  /\ activeFileId' = next.activeFileId
  /\ prevTabs' = <<TabState>>
  /\ lastEvent' = type
  /\ UNCHANGED <<mounted, isMounted, isSearching, pattern, cleanup, timers, results,
                 focusedIndex, focusedChildIndex, error, jump, syncNode, scrolled,
                 prevFocus, doc, dispatched, changes, execs>>

OpenTab == \E fileId \in TabIds : Reduce("open_tab", open_tab(TabState, fileId))

CloseTab ==
  \E fileIdToRemove \in TabIds :
    Reduce("close_tab", close_tab(TabState, fileIdToRemove))

MultiCloseTab ==
  \E idsToDelete \in IdLists(MaxClose) :
    Reduce("multi_close_tab", multi_close_tab(TabState, idsToDelete))

(* Any duplicate-free tabList, with activeFileId null or one of its tabs. *)
InitTabs ==
  /\ tabList \in IdLists(Cardinality(TabIds))
  /\ \A j, k \in 1..Len(tabList) : tabList[j] = tabList[k] => j = k
  /\ activeFileId \in {NoFile} \cup {tabList[k] : k \in 1..Len(tabList)}
  /\ prevTabs = <<>>
  /\ lastEvent = ""
  /\ mounted = TRUE
  /\ isMounted = TRUE
  /\ isSearching = FALSE
  /\ pattern = <<>>
  /\ cleanup = TRUE
  /\ timers = <<>>
  /\ results = <<>>
  /\ focusedIndex = Null
  /\ focusedChildIndex = Null
  /\ error = 0
  /\ jump = <<>>
  /\ syncNode = <<>>
  /\ scrolled = FALSE
  /\ prevFocus = <<Null, Null>>
  /\ doc = <<>>
  /\ dispatched = <<>>
  /\ changes = <<>>
  /\ execs = <<>>

NextTabs == OpenTab \/ CloseTab \/ MultiCloseTab

SpecTabs == InitTabs /\ [][NextTabs]_vars

(* the longest tabList a set_tab_list action stores *)
MaxTabs == 3

(* the ids of the tabs a set_tab_list action stores *)
StoredIds == {"a.ts", "b.ts", "c.ts"}

(* Any state set_tab_list and set_active_fileId can leave: a tabList that  *)
(* may hold an id twice, and an activeFileId that may be no tab of it.     *)
InitReducer ==
  /\ tabList \in UNION {[1..k -> StoredIds] : k \in 0..MaxTabs}
  /\ activeFileId \in {NoFile} \cup TabIds
  /\ prevTabs = <<>>
  /\ lastEvent = ""
  /\ mounted = TRUE
  /\ isMounted = TRUE
  /\ isSearching = FALSE
  /\ pattern = <<>>
  /\ cleanup = TRUE
  /\ timers = <<>>
  /\ results = <<>>
  /\ focusedIndex = Null
  /\ focusedChildIndex = Null
  /\ error = 0
  /\ jump = <<>>
  /\ syncNode = <<>>
  /\ scrolled = FALSE
  /\ prevFocus = <<Null, Null>>
  /\ doc = <<>>
  /\ dispatched = <<>>
  /\ changes = <<>>
  /\ execs = <<>>

NextReducer == CloseTab \/ MultiCloseTab

SpecReducer == InitReducer /\ [][NextReducer]_vars

----------------------------------------------------------------------------
(* Properties of the search trigger (SpecTrigger) *)

(* A pattern made of white space only, stated without Trim. *)
IsBlank(p) == \A i \in 1..Len(p) : IsSpace(p[i])

(* C1: debounce.  While the component stays mounted, after k >= 1 pattern  *)
(* changes that each arrived before the timer of the previous one fired    *)
(* and that all have a non-empty trim, no search has executed as long as   *)
(* the timer of the last change is pending, and once no timer is pending   *)
(* exactly one search has executed, for the last pattern.                  *)
C1_Debounce ==
  (mounted /\ changes # <<>> /\ \A i \in 1..Len(changes) : ~IsBlank(changes[i]))
    => IF timers # <<>>
         THEN execs = <<>> /\ Len(timers) = 1
         ELSE execs = <<changes[Len(changes)]>>

(* Three patterns in rapid succession, the timer of the third has fired. *)
C1_Witness ==
  /\ mounted
  /\ Len(changes) = 3
  /\ \A i \in 1..3 : ~IsBlank(changes[i])
  /\ timers = <<>>
  /\ execs = <<changes[3]>>

(* C2: a change to a pattern of white space only leaves the state "not     *)
(* searching" at once, also with a timer pending, and no step executes a   *)
(* search while the pattern is blank (neither the change nor a timer).     *)
C2_BlankPatternNeverSearches ==
  [][ /\ (pattern' # pattern /\ IsBlank(pattern')) => ~isSearching'
      /\ IsBlank(pattern') => Len(execs') <= Len(execs) ]_vars

(* A blank pattern arrived while the timer of a non-blank one was pending, *)
(* and its own timer has fired since, without a search.                    *)
C2_Witness ==
  /\ mounted
  /\ Len(changes) >= 2
  /\ ~IsBlank(changes[1])
  /\ IsBlank(pattern)
  /\ pattern # <<>>
  /\ changes[Len(changes)] = pattern
  /\ timers = <<>>
  /\ execs = <<>>
  /\ ~isSearching

----------------------------------------------------------------------------
(* Properties of the navigation (SpecNav) *)

(* The focus pair. *)
Focus == <<focusedIndex, focusedChildIndex>>

(* The visible files and M(i), stated on results without the view. *)
Visible(rs) == SelectSeq(rs, LAMBDA e : e.visibility # "closed")

(* C3: a non-none line index implies a non-none file index whose file is   *)
(* not flattened and has at least one match.                               *)
C3_FocusInvariant ==
  focusedChildIndex # Null =>
    /\ focusedIndex # Null
    /\ focusedIndex >= 0
    /\ focusedIndex < Len(Visible(results))
    /\ Visible(results)[focusedIndex + 1].visibility # "flattened"
    /\ Len(Visible(results)[focusedIndex + 1].matches) >= 1

(* C4: with no visible file every key leaves focus, visibility and the     *)
(* active file unchanged and raises no error.                              *)
C4_NoVisibleFileNoOp ==
  [][ (Len(Visible(results)) = 0 /\ lastEvent' \in Keys)
        => (UNCHANGED <<focusedIndex, focusedChildIndex, results, activeFileId>>
            /\ error' = 0) ]_vars

(* C5: ArrowUp from (0, none) and ArrowDown from the last match of the     *)
(* last visible file leave the focus unchanged.                            *)
C5_NavigationBoundary ==
  [][ LET fs == Visible(results)
          N == Len(fs)
      IN  /\ (lastEvent' = "ArrowUp" /\ N >= 1 /\ Focus = <<0, Null>>)
               => Focus' = Focus
          /\ (lastEvent' = "ArrowDown" /\ N >= 1 /\ focusedIndex = N - 1
                /\ Len(fs[N].matches) >= 1
                /\ focusedChildIndex = Len(fs[N].matches) - 1)
               => Focus' = Focus ]_vars

(* ArrowDown was pressed on the last match of the last visible file. *)
C5_Witness ==
  LET fs == Visible(results)
  IN  /\ lastEvent = "ArrowDown"
      /\ Len(fs) = 2
      /\ Len(fs[2].matches) = 2
      /\ prevFocus = <<1, 1>>
      /\ Focus = <<1, 1>>

(* C6: ArrowDown from a heading (i, none) with M(i) > 0 followed by        *)
(* ArrowUp returns to (i, none).                                           *)
C6_RoundTrip ==
  [][ LET fs == Visible(results)
      IN  (/\ lastEvent = "ArrowDown"
           /\ prevFocus[1] # Null /\ prevFocus[1] >= 0 /\ prevFocus[1] < Len(fs)
           /\ prevFocus[2] = Null
           /\ Len(fs[prevFocus[1] + 1].matches) > 0
           /\ lastEvent' = "ArrowUp")
            => Focus' = prevFocus ]_vars

(* ArrowDown then ArrowUp were pressed from the heading of the second file. *)
C6_Witness ==
  /\ lastEvent = "ArrowUp"
  /\ prevFocus = <<1, 0>>
  /\ Focus = <<1, Null>>
  /\ Len(Visible(results)) = 2
  /\ Len(Visible(results)[2].matches) > 0

(* C7: ArrowDown moves from a heading with matches to the first match,     *)
(* from a match that is not the last to the next match, and from the last  *)
(* match of a file that is not the last to the heading of the next file.   *)
C7_ArrowDownWalk ==
  [][ LET fs == Visible(results)
          N == Len(fs)
          i == focusedIndex
          c == focusedChildIndex
      IN  (lastEvent' = "ArrowDown" /\ i # Null /\ i >= 0 /\ i < N)
            => LET M == Len(fs[i + 1].matches)
               IN  /\ (c = Null /\ M > 0) => Focus' = <<i, 0>>
                   /\ (c # Null /\ c >= 0 /\ c < M - 1) => Focus' = <<i, c + 1>>
                   /\ (c # Null /\ M >= 1 /\ c = M - 1 /\ i < N - 1)
                        => Focus' = <<i + 1, Null>> ]_vars

(* The third ArrowDown of the scenario: from the last of the 2 matches of  *)
(* file 0 to the heading of file 1, which has no match.                    *)
C7_Witness ==
  LET fs == Visible(results)
  IN  /\ lastEvent = "ArrowDown"
      /\ Len(fs) = 2
      /\ Len(fs[1].matches) = 2
      /\ Len(fs[2].matches) = 0
      /\ fs[1].visibility = "open"
      /\ fs[2].visibility = "open"
      /\ prevFocus = <<0, 1>>
      /\ Focus = <<1, Null>>

(* C8: the close button removes the focused file from the visible files,   *)
(* keeps every entry and its match records, and moves the focus to the     *)
(* heading of the previous visible file, or to none from the first.        *)
C8_CloseFile ==
  [][ lastEvent' = "close" =>
        LET fs == Visible(results)
            i == focusedIndex
            id == fs[i + 1].id
        IN  /\ i # Null /\ i >= 0 /\ i < Len(fs)
            /\ \A k \in 1..Len(Visible(results')) : Visible(results')[k].id # id
            /\ Len(Visible(results')) = Len(fs) - 1
            /\ Len(results') = Len(results)
            /\ \A k \in 1..Len(results) :
                 /\ results'[k].id = results[k].id
                 /\ results'[k].matches = results[k].matches
            /\ IF i > 0
                 THEN /\ focusedIndex' = i - 1
                      /\ focusedChildIndex' = Null
                      /\ Visible(results')[focusedIndex' + 1].id = fs[i].id
                 ELSE Focus' = <<Null, Null>> ]_vars

(* The second of two visible files was closed while it held the focus. *)
C8_Witness ==
  /\ lastEvent = "close"
  /\ prevFocus = <<1, Null>>
  /\ Focus = <<0, Null>>
  /\ Len(Visible(results)) = 1
  /\ Len(results) = 2
  /\ results[2].visibility = "closed"
  /\ Len(results[2].matches) = 2

(* C9: flattening an open file, by ArrowLeft on its heading or by a click  *)
(* on its arrow, sets that file to flattened and changes nothing else of   *)
(* results, nor the pattern.                                               *)
C9_FlattenFrame ==
  [][ LET fs == Visible(results)
          byKey == /\ lastEvent' = "ArrowLeft"
                   /\ focusedIndex # Null /\ focusedIndex >= 0 /\ focusedIndex < Len(fs)
                   /\ focusedChildIndex = Null
                   /\ fs[focusedIndex + 1].visibility = "open"
          byClick == /\ lastEvent' = "arrow"
                     /\ fs[focusedIndex' + 1].visibility = "open"
          id == IF byKey THEN fs[focusedIndex + 1].id ELSE fs[focusedIndex' + 1].id
      IN  (byKey \/ byClick)
            => /\ pattern' = pattern
               /\ Len(results') = Len(results)
               /\ \A k \in 1..Len(results) :
                    /\ results'[k].id = results[k].id
                    /\ results'[k].matches = results[k].matches
                    /\ results'[k].visibility =
                         IF results[k].id = id THEN "flattened" ELSE results[k].visibility ]_vars

(* ArrowLeft on the heading of the first file flattened it; its 2 match    *)
(* records are still in results.                                           *)
C9_Witness ==
  /\ lastEvent = "ArrowLeft"
  /\ prevFocus = <<0, Null>>
  /\ results[1].visibility = "flattened"
  /\ Len(results[1].matches) = 2
  /\ results[2].visibility = "open"

(* C10: Enter or Space on a heading or on a match sets the active file to  *)
(* the focused file and changes neither focus nor results; it calls        *)
(* jumpToPattern exactly when a match is focused and the file has an       *)
(* editor; the activation itself never throws, and the handler throws      *)
(* nothing when the focused node is rendered.                              *)
C10_Activate ==
  [][ lastEvent' \in {"Enter", " "} =>
        LET fs == Visible(results)
            i == focusedIndex
            c == focusedChildIndex
        IN  (/\ i # Null /\ i >= 0 /\ i < Len(fs)
             /\ (c = Null \/ (c >= 0 /\ c < Len(fs[i + 1].matches))))
              => /\ activeFileId' = fs[i + 1].id
                 /\ Focus' = Focus
                 /\ results' = results
                 /\ c = Null => jump' = <<>>
                 /\ \A hasEditor \in BOOLEAN :
                      (c # Null /\ \E hasContainer, withinView \in BOOLEAN :
                         handleKeyDown(lastEvent', hasContainer, hasEditor, withinView))
                        => (jump' # <<>>) <=> hasEditor
                 /\ jump' # <<>> =>
                      /\ jump'[1].fileId = fs[i + 1].id
                      /\ jump'[1].line = fs[i + 1].matches[c + 1].line
                      /\ jump'[1].index = fs[i + 1].matches[c + 1].index
                 /\ error' # 177
                 /\ (c = Null \/ fs[i + 1].visibility # "flattened") => error' = 0 ]_vars

(* Space was pressed on the second match of a file that is not the active  *)
(* one and has no editor: the file became active and no jump was made.     *)
C10_Witness ==
  /\ lastEvent = " "
  /\ prevFocus = <<1, 1>>
  /\ Focus = <<1, 1>>
  /\ Len(Visible(results)) = 2
  /\ activeFileId = Visible(results)[2].id
  /\ jump = <<>>
  /\ error = 0

(* C11: every activation of a result node, by Enter, by Space, by a click  *)
(* on a heading or by a click on a match line, sets the active file to the *)
(* file that owns the node.                                                *)
C11_ActivationSetsActiveFile ==
  [][ LET fs == Visible(results)
      IN  /\ (lastEvent' \in {"Enter", " "} /\ focusedIndex # Null
                /\ focusedIndex >= 0 /\ focusedIndex < Len(fs))
               => activeFileId' = fs[focusedIndex + 1].id
          /\ lastEvent' \in {"heading", "line"}
               => activeFileId' = fs[focusedIndex' + 1].id ]_vars

----------------------------------------------------------------------------
(* Properties of jumpToPattern (SpecJump) *)

(* The text of a document: its lines joined by line breaks. *)
RECURSIVE TextOf(_)
TextOf(d) ==
  IF d = <<>> THEN <<>>
  ELSE IF Len(d) = 1 THEN d[1]
  ELSE d[1] \o <<"\n">> \o TextOf(Tail(d))

(* The number of line breaks among the first o characters of a text. *)
BreaksBefore(text, o) == Cardinality({ q \in 1..o : text[q] = "\n" })

(* C12: the dispatched selection starts at the offset of column index of   *)
(* the match's 1-based line (the position that follows line - 1 line       *)
(* breaks, the last of them index characters back), has the length of the  *)
(* pattern, stays within that line and selects the pattern; the scroll     *)
(* request targets the start and centers it.                               *)
C12_JumpCorrectness ==
  dispatched # <<>> =>
    LET t == dispatched[1]
        text == TextOf(doc)
        start == t.anchor - jump[1].index
    IN  /\ start >= 0
        /\ start <= Len(text)
        /\ start = 0 \/ text[start] = "\n"
        /\ BreaksBefore(text, start) = jump[1].line - 1
        /\ t.head = t.anchor + Len(pattern)
        /\ t.head <= Len(text)
        /\ SubSeq(text, t.anchor + 1, t.head) = pattern
        /\ t.scrollTo = t.anchor
        /\ t.y = "center"

(* A jump to a match that starts after the first column of the second line. *)
C12_Witness ==
  /\ dispatched # <<>>
  /\ jump[1].line = 2
  /\ jump[1].index = 1
  /\ Len(doc[1]) = 2
  /\ dispatched[1].anchor = 4
  /\ dispatched[1].head = 5

----------------------------------------------------------------------------
(* More properties of the search trigger (SpecTrigger) *)

(* C13: at most one timer is pending, and it is the one the latest pattern *)
(* change of the mounted component scheduled.                              *)
C13_SingleTimer ==
  /\ Len(timers) <= 1
  /\ timers # <<>> => (mounted /\ timers[1] = pattern)

(* A second pattern change arrived while the timer of the first was        *)
(* pending; one timer is pending.                                          *)
C13_Witness ==
  /\ mounted
  /\ Len(changes) >= 2
  /\ changes[1] # changes[2]
  /\ Len(timers) = 1

(* C14: while the component is unmounted no timer is pending, and no step  *)
(* that leaves it unmounted searches or changes results or isSearching.    *)
C14_Teardown ==
  [][ ~mounted =>
        /\ timers = <<>>
        /\ ~mounted' => UNCHANGED <<results, isSearching, execs>> ]_vars

(* The component was unmounted while the timer of a non-blank pattern was  *)
(* pending: that pattern was never searched and no timer is left.          *)
C14_Witness ==
  /\ ~mounted
  /\ changes # <<>>
  /\ ~IsBlank(changes[Len(changes)])
  /\ execs = <<>>
  /\ timers = <<>>
  /\ results = <<>>
  /\ ~isSearching

----------------------------------------------------------------------------
(* More properties of the navigation (SpecNav) *)

(* C15: when a key changes the focus and the handler checks an element,    *)
(* it is the element of the node focused after the key.                    *)
C15_SyncNewFocus ==
  [][ (lastEvent' \in Keys /\ Focus' # Focus /\ syncNode' # <<>>)
        => syncNode' = Focus' ]_vars

(* C16: a key pressed while the focus is on a match of a flattened file,   *)
(* whose line element is not rendered, raises no error and scrolls         *)
(* nothing.                                                                *)
C16_SyncAbsentElement ==
  [][ LET fs == Visible(results)
          i == focusedIndex
          c == focusedChildIndex
      IN  (/\ lastEvent' \in Keys
           /\ i # Null /\ i >= 0 /\ i < Len(fs)
           /\ c # Null /\ c >= 0 /\ c < Len(fs[i + 1].matches)
           /\ fs[i + 1].visibility = "flattened")
            => (error' = 0 /\ ~scrolled') ]_vars

(* C17: ArrowLeft on a match moves the focus to the heading and changes no *)
(* visibility; on a heading it keeps the focus and sets the file to        *)
(* flattened when it is open and changes no visibility otherwise.          *)
C17_ArrowLeft ==
  [][ LET fs == Visible(results)
          i == focusedIndex
          c == focusedChildIndex
      IN  (lastEvent' = "ArrowLeft" /\ i # Null /\ i >= 0 /\ i < Len(fs))
            => /\ c # Null => (Focus' = <<i, Null>> /\ results' = results)
               /\ c = Null =>
                    /\ Focus' = Focus
                    /\ Len(results') = Len(results)
                    /\ \A k \in 1..Len(results) :
                         /\ results'[k].id = results[k].id
                         /\ results'[k].matches = results[k].matches
                         /\ results'[k].visibility =
                              IF results[k].id = fs[i + 1].id
                                   /\ results[k].visibility = "open"
                                THEN "flattened"
                                ELSE results[k].visibility ]_vars

(* C18: ArrowRight opens a file that is not open and keeps the focus; on   *)
(* the heading of an open file it enters the first match when there is one *)
(* and keeps the focus otherwise; on a match of an open file it changes    *)
(* nothing.                                                                *)
C18_ArrowRight ==
  [][ LET fs == Visible(results)
          i == focusedIndex
          c == focusedChildIndex
      IN  (lastEvent' = "ArrowRight" /\ i # Null /\ i >= 0 /\ i < Len(fs))
            => IF fs[i + 1].visibility # "open"
                 THEN /\ Focus' = Focus
                      /\ Len(results') = Len(results)
                      /\ \A k \in 1..Len(results) :
                           /\ results'[k].id = results[k].id
                           /\ results'[k].matches = results[k].matches
                           /\ results'[k].visibility =
                                IF results[k].id = fs[i + 1].id
                                  THEN "open" ELSE results[k].visibility
                 ELSE /\ results' = results
                      /\ Focus' = IF c = Null /\ Len(fs[i + 1].matches) >= 1
                                    THEN <<i, 0>> ELSE Focus ]_vars

(* C19: ArrowUp moves from a heading (i, none), i > 0, to the last match   *)
(* of the previous file, or to its heading when it has no match; from the  *)
(* first match to the heading; from any other match to the match before.   *)
C19_ArrowUp ==
  [][ LET fs == Visible(results)
          i == focusedIndex
          c == focusedChildIndex
      IN  (lastEvent' = "ArrowUp" /\ i # Null /\ i >= 0 /\ i < Len(fs))
            => /\ (c = Null /\ i > 0) =>
                    Focus' = IF Len(fs[i].matches) > 0
                               THEN <<i - 1, Len(fs[i].matches) - 1>>
                               ELSE <<i - 1, Null>>
               /\ c = 0 => Focus' = <<i, Null>>
               /\ (c # Null /\ c > 0) => Focus' = <<i, c - 1>> ]_vars

(* ArrowUp on the heading of the second file moved the focus to the last   *)
(* of the 2 matches of the first.                                          *)
C19_Witness ==
  /\ lastEvent = "ArrowUp"
  /\ prevFocus = <<1, Null>>
  /\ Focus = <<0, 1>>
  /\ Len(Visible(results)) = 2
  /\ Len(Visible(results)[1].matches) = 2

----------------------------------------------------------------------------
(* Properties of the tab reducer (SpecTabs) *)

(* C20: activeFileId is null or one of the tabs of tabList.                *)
C20_ActiveIsTab ==
  \/ activeFileId = NoFile
  \/ \E k \in 1..Len(tabList) : tabList[k] = activeFileId

(* close_tab removed the active tab, and a remaining tab became active.    *)
C20_Witness ==
  /\ lastEvent = "close_tab"
  /\ prevTabs # <<>>
  /\ prevTabs[1].activeFileId # NoFile
  /\ Len(tabList) = Len(prevTabs[1].tabList) - 1
  /\ \A k \in 1..Len(tabList) : tabList[k] # prevTabs[1].activeFileId
  /\ activeFileId # NoFile

(* close_tab for each id of ids, one after the other, in order *)
RECURSIVE closeEach(_, _)
closeEach(state, ids) ==
  IF ids = <<>> THEN state
  ELSE closeEach(close_tab(state, Head(ids)), Tail(ids))

(* C21: in every state, for every list of ids, one multi_close_tab yields  *)
(* the tabList and activeFileId that close_tab yields applied to the ids   *)
(* one after the other in order.                                           *)
C21_MultiCloseIsSequence ==
  \A idsToDelete \in IdLists(MaxClose) :
    multi_close_tab(TabState, idsToDelete) = closeEach(TabState, idsToDelete)

(* multi_close_tab with a list that repeats an id and names an id that is  *)
(* no tab removed 2 tabs, the active one among them, from a tabList that   *)
(* held an id twice.                                                       *)
C21_Witness ==
  /\ lastEvent = "multi_close_tab"
  /\ prevTabs # <<>>
  /\ LET before == prevTabs[1]
     IN  /\ \E j, k \in 1..Len(before.tabList) :
              j # k /\ before.tabList[j] = before.tabList[k]
         /\ Len(tabList) = Len(before.tabList) - 2
         /\ before.activeFileId # NoFile
         /\ findIndex(before.tabList, before.activeFileId) # -1
         /\ activeFileId # before.activeFileId
         /\ activeFileId # NoFile
         /\ \E idsToDelete \in IdLists(MaxClose) :
              /\ Len(idsToDelete) = MaxClose
              /\ \E j, k \in 1..MaxClose :
                   j # k /\ idsToDelete[j] = idsToDelete[k]
              /\ TabState = multi_close_tab(before, idsToDelete)
              /\ TabState = closeEach(before, idsToDelete)

====
